---- MODULE Spec2Model ----
(***************************************************************************)
(* Job orchestration of the Atomiq Suite backend (backend/main.py and      *)
(* backend/agent/orchestrator.py).                                         *)
(*                                                                         *)
(* JOBS is the in-memory job table.  Every job has one background worker   *)
(* (_run_job, run by the framework in a thread pool), which writes the     *)
(* job's fields one at a time.  The HTTP handlers (get_job, the event_gen  *)
(* generator of stream_events) run on the event loop: they run one at a    *)
(* time, from one suspension point to the next, but the workers' writes    *)
(* interleave with their reads.                                            *)
(*                                                                         *)
(* Path resolution and the materializer (backend/agent/crewai_pipeline.py, *)
(* _safe_join, _clean_body, _materialize) are pure functions of their      *)
(* arguments and the output tree; SpecFiles applies them to bounded        *)
(* arguments, with Python's string and POSIX path operations spelled out.  *)
(***************************************************************************)
EXTENDS Integers, Sequences, FiniteSets, TLC

\* Bound of the model: the number of jobs submitted.
NJobs == 2

\* Bound of the model: the number of calls of the progress callback made from
\* outside the pipeline's own schedule (SpecCb).
MaxCalls == 2

\* Bound of the model: the largest number of files one generator run writes.
MaxWritten == 2

JobIds == 1..NJobs

\* The subscribers of the event stream: a first one and a second one.
SubIds == {1, 2}

None == "None"

\* values of loop: the event loop is free, or runs get_job, or runs a generator
Idle == <<"idle">>
Sub(s) == <<"sub", s>>

VARIABLES
    JOBS,      \* main.py JOBS: job id -> job record
    env,       \* whether os.environ holds OPENAI_API_KEY
    w,         \* per job: the worker's position and locals (_run_job / run_pipeline),
               \* and history: gen, how the generator call of the job ended;
               \* notice, whether NOTICE.txt was written into its output tree;
               \* raw, whether _crewai_raw.md was written into it
    ran,       \* per job: the stage bodies executed so far, in order (history)
    calls,     \* the number of ProgressCall steps taken so far
    loop,      \* which coroutine holds the event loop ("idle" when none)
    poll,      \* the get_job call in progress: position, job, fields read so far
    polls,     \* history: <<progress, status of the get_job response before the
               \* last, the last get_job response>>
    subs,      \* per subscriber: the event_gen generator's position and locals,
               \* and history: seen, the log positions of the events yielded, in
               \* order; last, the last event yielded; prevp, the progress of
               \* the event before it
    fn         \* a call of _safe_join or _materialize taken on its own: its
               \* arguments and, once it has returned or raised, its outcome

vars == <<JOBS, env, w, ran, calls, loop, poll, polls, subs, fn>>

Terminal == {"succeeded", "failed"}

----------------------------------------------------------------------------
\* Pipeline stages and their pre-assigned progress checkpoints.

\* Mutant of Pct: the packaging checkpoint mistyped as 8.
PctMistyped(stage) ==
    CASE stage = "fetch"    -> 5
      [] stage = "scan"     -> 25
      [] stage = "gen"      -> 55
      [] stage = "pack"     -> 8
      [] stage = "complete" -> 100

\* orchestrator.py:25, 28, 54, 122, 127  the percentage passed to job_progress_cb
\* for each stage
Pct(stage) ==
    CASE stage = "fetch"    -> 5
      [] stage = "scan"     -> 25
      [] stage = "gen"      -> 55
      [] stage = "pack"     -> 85
      [] stage = "complete" -> 100

\* orchestrator.py:25, 28, 54, 122, 127  the label passed to job_progress_cb for
\* each stage
Label(stage) ==
    CASE stage = "fetch"    -> "Fetching repository"
      [] stage = "scan"     -> "Scanning Java sources"
      [] stage = "gen"      -> "CrewAI generation"
      [] stage = "pack"     -> "Packaging"
      [] stage = "complete" -> "Complete"

\* orchestrator.py:124  zip_path = <artifacts>/<job_id>-tests.zip
ZipPath(j) == "artifacts/" \o ToString(j) \o "-tests.zip"

Max(a, b) == IF a >= b THEN a ELSE b
Min(a, b) == IF a <= b THEN a ELSE b

\* main.py:148  pct = max(0, min(100, int(pct)))
Clamp(pct) == Max(0, Min(100, pct))

\* a log entry (main.py:154-156, 168-170, 176-178); the timestamp is left out
Entry(pct, status, message) ==
    [progress |-> pct, status |-> status, message |-> message]

\* Python's `a or b` on strings
StrOr(a, b) == IF a /= "" THEN a ELSE b

----------------------------------------------------------------------------
\* The progress callback _progress (main.py:147-156), one operator per write.
\* Each takes the job record and returns the record after the write.

\* main.py:150  job["progress"] = pct
SetProgress(job, pct) == [job EXCEPT !.progress = pct]

\* Mutant of SetRunning: the test for a terminal status left out.
SetRunningUnguarded(job, pct) ==
    [job EXCEPT !.status = IF pct < 100 THEN "running" ELSE job.status]

\* main.py:151-152  status becomes running unless terminal or pct = 100
SetRunning(job, pct) ==
    IF job.status \notin Terminal
    THEN [job EXCEPT !.status = IF pct < 100 THEN "running" ELSE job.status]
    ELSE job

\* main.py:153  job["message"] = message or status
SetMessage(job, status, message) == [job EXCEPT !.message = StrOr(message, status)]

\* main.py:154-156  job["logs"].append({...})
AppendLog(job, pct, status, message) ==
    [job EXCEPT !.logs = Append(job.logs, Entry(pct, status, message))]

\* main.py:147-156  the whole callback, as one call
_progress(job, pct, status, message) ==
    LET p  == Clamp(pct)
        j1 == SetProgress(job, p)
        j2 == SetRunning(j1, p)
        j3 == SetMessage(j2, status, message)
    IN  AppendLog(j3, p, status, message)

----------------------------------------------------------------------------
\* State after construction: no job, no key in the environment.

NewJob ==
    [status |-> "pending", progress |-> 0, message |-> "Queued",
     logs |-> <<>>, artifact |-> None]

IdleWorker == [pc |-> "none", at |-> "fetch", ai_required |-> FALSE,
               used_ai |-> FALSE, gen |-> "none", notice |-> FALSE,
               raw |-> FALSE, llm_provider |-> "openai", exc |-> None]

IdlePoll == [pc |-> "idle", job |-> 0, resp |-> <<>>]

NoResp == [job |-> 0]

NoEvent == [pos |-> 0]

NoCall == [op |-> "none"]

InitJobs ==
    /\ JOBS = <<>>
    /\ env = FALSE
    /\ w = [j \in JobIds |-> IdleWorker]
    /\ ran = [j \in JobIds |-> <<>>]
    /\ calls = 0
    /\ loop = Idle
    /\ poll = IdlePoll
    /\ polls = <<NoResp, NoResp>>
    /\ subs = [s \in SubIds |-> [pc |-> "none"]]

Init == InitJobs /\ fn = NoCall

----------------------------------------------------------------------------
\* POST /api/build (main.py:77-181): registers the job and queues its worker.

build(j, has_key, llm_provider) ==
    /\ loop = Idle
    /\ j \in JobIds
    /\ j = Len(JOBS) + 1
    /\ env' = (env \/ has_key)                       \* main.py:107-108
    /\ JOBS' = Append(JOBS, NewJob)                  \* main.py:122-131
    /\ w' = [w EXCEPT ![j].pc = "queued",            \* main.py:133-145, 180
                      ![j].llm_provider = llm_provider]
    /\ UNCHANGED <<ran, calls, loop, poll, polls, subs, fn>>

----------------------------------------------------------------------------
\* The worker _run_job (main.py:159-178) with run_pipeline inlined
\* (orchestrator.py:21-128).  One action per write or per stage call.

WorkerFrame == <<env, calls, loop, poll, polls, subs, fn>>

\* main.py:161  JOBS[job_id]["status"] = "running"; then run_pipeline is entered
\* and reaches its first job_progress_cb call (orchestrator.py:25)
RunJobStart(j) ==
    /\ w[j].pc = "queued"
    /\ JOBS' = [JOBS EXCEPT ![j].status = "running"]
    /\ w' = [w EXCEPT ![j].pc = "cb150", ![j].at = "fetch"]
    /\ UNCHANGED <<ran, WorkerFrame>>

\* main.py:150 inside job_progress_cb(Pct, Label)
Cb150(j) ==
    /\ w[j].pc = "cb150"
    /\ JOBS' = [JOBS EXCEPT ![j] = SetProgress(@, Clamp(Pct(w[j].at)))]
    /\ w' = [w EXCEPT ![j].pc = "cb151"]
    /\ UNCHANGED <<ran, WorkerFrame>>

\* main.py:151-152
Cb151(j) ==
    /\ w[j].pc = "cb151"
    /\ JOBS' = [JOBS EXCEPT ![j] = SetRunning(@, Clamp(Pct(w[j].at)))]
    /\ w' = [w EXCEPT ![j].pc = "cb153"]
    /\ UNCHANGED <<ran, WorkerFrame>>

\* main.py:153
Cb153(j) ==
    /\ w[j].pc = "cb153"
    /\ JOBS' = [JOBS EXCEPT ![j] = SetMessage(@, Label(w[j].at), "")]
    /\ w' = [w EXCEPT ![j].pc = "cb154"]
    /\ UNCHANGED <<ran, WorkerFrame>>

\* Mutant of Cb154: the callback returns without appending its entry.
Cb154NoEntry(j) ==
    /\ w[j].pc = "cb154"
    /\ w' = [w EXCEPT ![j].pc = w[j].at]
    /\ UNCHANGED <<JOBS, ran, WorkerFrame>>

\* main.py:154-156; the callback returns and the stage body it announced is next
Cb154(j) ==
    /\ w[j].pc = "cb154"
    /\ JOBS' = [JOBS EXCEPT ![j] = AppendLog(@, Clamp(Pct(w[j].at)), Label(w[j].at), "")]
    /\ w' = [w EXCEPT ![j].pc = w[j].at]
    /\ UNCHANGED <<ran, WorkerFrame>>

\* repo.py:34  the error of a failed fetch
FetchError == "Failed to fetch repository via GitHub zip fallback"

\* orchestrator.py:31  the error of a scan that found no Java file
NoJavaError == "No Java files found in the repository."

\* crewai_pipeline.py:379-382  the error of a generator run that wrote no file
GenError == "CrewAI produced no file blocks."

\* crewai_pipeline.py:102-105  the error of a generator call without a key
NoKeyError == "OPENAI_API_KEY not set; cannot run CrewAI with OpenAI provider."

\* crewai_pipeline.py:364  the error of a crew.kickoff() that raised
CrewError == "CrewAI kickoff failed"

\* crewai_pipeline.py:100-101  the error of a provider other than openai
ProviderError == "Unsupported provider. Only 'openai' is supported."

\* crewai_pipeline.py:27  the error of _safe_join, raised through _materialize
UnsafeError == "Unsafe path refused"

\* zipper.py:5-10  the error of a failed archive write
PackError == "Failed to write the archive"

\* main.py:172  the error of the archive check
NoZipError == "Artifact ZIP not found after pipeline."

\* Mutant of Raise: the stage that raised is entered again.
RaiseRetries(j, e) == [w EXCEPT ![j].pc = w[j].at]

\* where an exception raised inside run_pipeline lands: main.py:173
Raise(j, e) == [w EXCEPT ![j].pc = "e174", ![j].exc = e]

\* orchestrator.py:26  repo = shallow_clone(...): returns or raises
StageFetch(j) ==
    /\ w[j].pc = "fetch"
    /\ ran' = [ran EXCEPT ![j] = Append(@, "fetch")]
    /\ \E ok \in BOOLEAN :
         w' = IF ok THEN [w EXCEPT ![j].pc = "cb150", ![j].at = "scan"]
                    ELSE Raise(j, FetchError)
    /\ UNCHANGED <<JOBS, WorkerFrame>>

\* orchestrator.py:29-31  files = discover_java_files(repo); none -> RuntimeError
StageScan(j) ==
    /\ w[j].pc = "scan"
    /\ ran' = [ran EXCEPT ![j] = Append(@, "scan")]
    /\ \E found \in BOOLEAN :
         w' = IF found THEN [w EXCEPT ![j].pc = "env51"]
                       ELSE Raise(j, NoJavaError)
    /\ UNCHANGED <<JOBS, WorkerFrame>>

\* orchestrator.py:50-54  used_ai = False; ai_required = bool(os.environ.get(KEY));
\* then the try block is entered and reaches job_progress_cb(55, ...)
ReadAiRequired(j) ==
    /\ w[j].pc = "env51"
    /\ w' = [w EXCEPT ![j].pc = "cb150", ![j].at = "gen",
                      ![j].ai_required = env, ![j].used_ai = FALSE]
    /\ UNCHANGED <<JOBS, ran, WorkerFrame>>

\* how a call of run_crewai_generation ends (crewai_pipeline.py:100, 102, 364,
\* 378): with a provider other than openai, without a key in the environment,
\* with crew.kickoff() raising, with _materialize raising on an unsafe path, or
\* with `written` files materialized
GenOutcome(openai, key, crash, unsafe, written) ==
    CASE ~openai     -> "provider"
      [] ~key        -> "nokey"
      [] crash       -> "crash"
      [] unsafe      -> "unsafe"
      [] written = 0 -> "zero"
      [] OTHER       -> "ok"

\* Mutant of NoFileBlocks: zero files written is not an error.
NoFileBlocksAccepted(written) == FALSE

\* crewai_pipeline.py:379  if written == 0: raise RuntimeError(...)
NoFileBlocks(written) == written = 0

\* the exception a failed call of run_crewai_generation raised
\* (crewai_pipeline.py:100-105, 364, 378, 379-382)
GenFailure(outcome) ==
    CASE outcome = "provider" -> ProviderError
      [] outcome = "nokey"    -> NoKeyError
      [] outcome = "crash"    -> CrewError
      [] outcome = "unsafe"   -> UnsafeError
      [] outcome = "zero"     -> GenError

\* crewai_pipeline.py:100  provider.lower() != "openai", on
\* provider = opts.llm_provider or "openai" (orchestrator.py:69)
IsOpenAI(llm_provider) == llm_provider \in {"", "openai", "OpenAI"}

\* crewai_pipeline.py:366-375  _crewai_raw.md is written once crew.kickoff() has
\* returned, before _materialize (the write is taken to succeed)
RawWritten(outcome) == outcome \in {"unsafe", "zero", "ok"}

\* orchestrator.py:55-75  count = run_crewai_generation(...); used_ai = count > 0.
\* The call raises when the request's provider is not openai
\* (crewai_pipeline.py:100-101), when the environment holds no key (102-105),
\* when crew.kickoff() raises, when _materialize raises (378) and when no file
\* was written (379-382); else it returns the number of files written.
StageGen(j) ==
    /\ w[j].pc = "gen"
    /\ ran' = [ran EXCEPT ![j] = Append(@, "gen")]
    /\ \E crash, unsafe \in BOOLEAN, written \in 0..MaxWritten :
         LET outcome == GenOutcome(IsOpenAI(w[j].llm_provider), env, crash, unsafe, written)
             raises  == \/ outcome \in {"provider", "nokey", "crash", "unsafe"}
                        \/ NoFileBlocks(written)
         IN  w' = IF raises
                  THEN [w EXCEPT ![j].pc = "except76", ![j].gen = outcome,
                                 ![j].raw = RawWritten(outcome)]
                  ELSE [w EXCEPT ![j].pc = "fallback85", ![j].gen = outcome,
                                 ![j].raw = RawWritten(outcome),
                                 ![j].used_ai = (written > 0)]
    /\ UNCHANGED <<JOBS, WorkerFrame>>

\* Mutant of GenExcept: the exception is raised again whether or not the key
\* was present.
GenExceptAlwaysRaises(j) ==
    /\ w[j].pc = "except76"
    /\ w' = Raise(j, GenFailure(w[j].gen))
    /\ UNCHANGED <<JOBS, ran, WorkerFrame>>

\* orchestrator.py:76-83  the exception is raised again when the key was present;
\* else NOTICE.txt is written into the output tree and the pipeline goes on
GenExcept(j) ==
    /\ w[j].pc = "except76"
    /\ w' = IF w[j].ai_required
            THEN Raise(j, GenFailure(w[j].gen))
            ELSE [w EXCEPT ![j].pc = "fallback85", ![j].notice = TRUE]
    /\ UNCHANGED <<JOBS, ran, WorkerFrame>>

\* orchestrator.py:85-122  the fallback scaffold when the generator wrote nothing,
\* then job_progress_cb(85, ...) is reached
Fallback(j) ==
    /\ w[j].pc = "fallback85"
    /\ ran' = [ran EXCEPT ![j] = IF w[j].used_ai THEN @ ELSE Append(@, "fallback")]
    /\ w' = [w EXCEPT ![j].pc = "cb150", ![j].at = "pack"]
    /\ UNCHANGED <<JOBS, WorkerFrame>>

\* orchestrator.py:123-127  zip_dir(out_root, zip_path): returns or raises
StagePack(j) ==
    /\ w[j].pc = "pack"
    /\ ran' = [ran EXCEPT ![j] = Append(@, "pack")]
    /\ \E ok \in BOOLEAN :
         w' = IF ok THEN [w EXCEPT ![j].pc = "cb150", ![j].at = "complete"]
                    ELSE Raise(j, PackError)
    /\ UNCHANGED <<JOBS, WorkerFrame>>

\* orchestrator.py:128 return zip_path; main.py:163 Path(zip_path).is_file(),
\* main.py:172 raise FileNotFoundError when the archive is not there
ArchiveCheck(j) ==
    /\ w[j].pc = "complete"
    /\ \E is_file \in BOOLEAN :
         w' = IF is_file THEN [w EXCEPT ![j].pc = "s164"]
                         ELSE Raise(j, NoZipError)
    /\ UNCHANGED <<JOBS, ran, WorkerFrame>>

\* Mutant of Succeed164: the artifact path is not recorded.
Succeed164NoArtifact(j) ==
    /\ w[j].pc = "s164"
    /\ w' = [w EXCEPT ![j].pc = "s165"]
    /\ UNCHANGED <<JOBS, ran, WorkerFrame>>

\* main.py:164  JOBS[job_id]["artifact"] = zip_path
Succeed164(j) ==
    /\ w[j].pc = "s164"
    /\ JOBS' = [JOBS EXCEPT ![j].artifact = ZipPath(j)]
    /\ w' = [w EXCEPT ![j].pc = "s165"]
    /\ UNCHANGED <<ran, WorkerFrame>>

\* main.py:165  JOBS[job_id]["progress"] = 100
Succeed165(j) ==
    /\ w[j].pc = "s165"
    /\ JOBS' = [JOBS EXCEPT ![j].progress = 100]
    /\ w' = [w EXCEPT ![j].pc = "s166"]
    /\ UNCHANGED <<ran, WorkerFrame>>

\* main.py:166  JOBS[job_id]["status"] = "succeeded"
Succeed166(j) ==
    /\ w[j].pc = "s166"
    /\ JOBS' = [JOBS EXCEPT ![j].status = "succeeded"]
    /\ w' = [w EXCEPT ![j].pc = "s167"]
    /\ UNCHANGED <<ran, WorkerFrame>>

\* main.py:167  JOBS[job_id]["message"] = "Complete"
Succeed167(j) ==
    /\ w[j].pc = "s167"
    /\ JOBS' = [JOBS EXCEPT ![j].message = "Complete"]
    /\ w' = [w EXCEPT ![j].pc = "s168"]
    /\ UNCHANGED <<ran, WorkerFrame>>

\* main.py:168-170  the 'Artifact ready' entry; the worker ends
Succeed168(j) ==
    /\ w[j].pc = "s168"
    /\ JOBS' = [JOBS EXCEPT ![j].logs = Append(@, Entry(100, "Complete", "Artifact ready"))]
    /\ w' = [w EXCEPT ![j].pc = "done"]
    /\ UNCHANGED <<ran, WorkerFrame>>

\* Mutant of Fail174: marking the job failed also resets its progress.
Fail174ResetsProgress(j) ==
    /\ w[j].pc = "e174"
    /\ JOBS' = [JOBS EXCEPT ![j].status = "failed", ![j].progress = 0]
    /\ w' = [w EXCEPT ![j].pc = "e175"]
    /\ UNCHANGED <<ran, WorkerFrame>>

\* Mutant of Fail174: the handler leaves the status as it is.
Fail174KeepsStatus(j) ==
    /\ w[j].pc = "e174"
    /\ w' = [w EXCEPT ![j].pc = "e175"]
    /\ UNCHANGED <<JOBS, ran, WorkerFrame>>

\* main.py:174  JOBS[job_id]["status"] = "failed"
Fail174(j) ==
    /\ w[j].pc = "e174"
    /\ JOBS' = [JOBS EXCEPT ![j].status = "failed"]
    /\ w' = [w EXCEPT ![j].pc = "e175"]
    /\ UNCHANGED <<ran, WorkerFrame>>

\* main.py:175  f"Error: {e}"
ErrorMessage(e) == "Error: " \o e

\* main.py:175  JOBS[job_id]["message"] = f"Error: {e}"
Fail175(j) ==
    /\ w[j].pc = "e175"
    /\ JOBS' = [JOBS EXCEPT ![j].message = ErrorMessage(w[j].exc)]
    /\ w' = [w EXCEPT ![j].pc = "e176"]
    /\ UNCHANGED <<ran, WorkerFrame>>

\* main.py:176-178  the 'Error' entry, with the progress read now; the worker ends
Fail176(j) ==
    /\ w[j].pc = "e176"
    /\ JOBS' = [JOBS EXCEPT ![j].logs = Append(@, Entry(JOBS[j].progress, "Error", w[j].exc))]
    /\ w' = [w EXCEPT ![j].pc = "done"]
    /\ UNCHANGED <<ran, WorkerFrame>>

Worker(j) ==
    \/ RunJobStart(j)
    \/ Cb150(j) \/ Cb151(j) \/ Cb153(j) \/ Cb154(j)
    \/ StageFetch(j) \/ StageScan(j) \/ ReadAiRequired(j) \/ StageGen(j)
    \/ GenExcept(j) \/ Fallback(j) \/ StagePack(j) \/ ArchiveCheck(j)
    \/ Succeed164(j) \/ Succeed165(j) \/ Succeed166(j) \/ Succeed167(j) \/ Succeed168(j)
    \/ Fail174(j) \/ Fail175(j) \/ Fail176(j)

----------------------------------------------------------------------------
\* The progress callback as an open operation (update_progress): _progress is a
\* closure over the job, and whoever holds it may call it with any percentage at
\* any time, also after the job has ended.

CallPcts == {30, 100, 130}

\* main.py:147-156  one call _progress(pct, "Update") on job j
ProgressCall(j, pct) ==
    /\ calls < MaxCalls
    /\ j \in DOMAIN JOBS
    /\ JOBS' = [JOBS EXCEPT ![j] = _progress(@, pct, "Update", "")]
    /\ calls' = calls + 1
    /\ UNCHANGED <<env, w, ran, loop, poll, polls, subs, fn>>

----------------------------------------------------------------------------
\* GET /api/jobs/{job_id} (main.py:187-201).  The handler has no suspension
\* point, so it holds the event loop from its first read to its return; the
\* fields are read one after the other while the workers keep writing.

\* main.py:200  the number of log entries a response carries at most
LogTail == 200

\* main.py:200  job["logs"][-200:]
LastLogs(logs) ==
    IF Len(logs) > LogTail THEN SubSeq(logs, Len(logs) - LogTail + 1, Len(logs)) ELSE logs

\* main.py:191, 228  the artifact URL exposed for a job, or None
ArtifactUrl(j, artifact) == IF artifact /= None THEN "/api/jobs/" \o ToString(j) \o "/artifact" ELSE None

PollFrame == <<JOBS, env, w, ran, calls, subs, fn>>

\* what the history keeps of the response before the last
Summary(resp) ==
    IF resp.job = 0 THEN NoResp
    ELSE [job |-> resp.job, status |-> resp.status, progress |-> resp.progress,
          after |-> resp.after]

\* main.py:188-191  job = JOBS.get(job_id); artifact_url from job.get("artifact").
\* after records whether the job was already terminal when the call began (history).
Poll188(j) ==
    /\ loop = Idle /\ poll.pc = "idle"
    /\ j \in DOMAIN JOBS
    /\ loop' = <<"poll">>
    /\ poll' = [pc |-> "r194", job |-> j,
                resp |-> [job |-> j, after |-> JOBS[j].status \in Terminal,
                          artifactUrl |-> ArtifactUrl(j, JOBS[j].artifact)]]
    /\ UNCHANGED <<polls, PollFrame>>

\* main.py:194  "status": job["status"]
Poll194 ==
    /\ poll.pc = "r194"
    /\ poll' = [poll EXCEPT !.pc = "r195",
                            !.resp = [f \in DOMAIN @ \cup {"status"} |->
                                      IF f = "status" THEN JOBS[poll.job].status ELSE @[f]]]
    /\ UNCHANGED <<loop, polls, PollFrame>>

\* main.py:195  "progress": job["progress"]
Poll195 ==
    /\ poll.pc = "r195"
    /\ poll' = [poll EXCEPT !.pc = "r196",
                            !.resp = [f \in DOMAIN @ \cup {"progress"} |->
                                      IF f = "progress" THEN JOBS[poll.job].progress ELSE @[f]]]
    /\ UNCHANGED <<loop, polls, PollFrame>>

\* main.py:196  "message": job["message"]
Poll196 ==
    /\ poll.pc = "r196"
    /\ poll' = [poll EXCEPT !.pc = "r200",
                            !.resp = [f \in DOMAIN @ \cup {"message"} |->
                                      IF f = "message" THEN JOBS[poll.job].message ELSE @[f]]]
    /\ UNCHANGED <<loop, polls, PollFrame>>

\* main.py:200-201  "logs": job["logs"][-200:]; the response is returned
Poll200 ==
    /\ poll.pc = "r200"
    /\ LET resp == [f \in DOMAIN poll.resp \cup {"logs"} |->
                    IF f = "logs" THEN LastLogs(JOBS[poll.job].logs) ELSE poll.resp[f]]
       IN  polls' = <<Summary(polls[2]), resp>>
    /\ poll' = IdlePoll
    /\ loop' = Idle
    /\ UNCHANGED PollFrame

get_job ==
    \/ \E j \in JobIds : Poll188(j)
    \/ Poll194 \/ Poll195 \/ Poll196 \/ Poll200

----------------------------------------------------------------------------
\* GET /api/jobs/{job_id}/events (main.py:207-241).  event_gen is a generator
\* on the event loop: it gives the loop up at each yield and at the sleep.

StreamFrame == <<JOBS, env, w, ran, calls, poll, polls, fn>>

\* Mutant of stream_events: the position is kept per job, so a new stream starts
\* where the job's other streams are.
stream_eventsSharedPosition(s, j) ==
    /\ loop = Idle /\ subs[s].pc = "none"
    /\ j \in DOMAIN JOBS
    /\ subs' = [subs EXCEPT ![s] =
                 [pc |-> "top", job |-> j,
                  last_len |-> IF \E t \in DOMAIN subs : subs[t].pc /= "none"
                               THEN Len(JOBS[j].logs) ELSE 0,
                  batch |-> <<>>, base |-> 0,
                  i |-> 0, progress |-> 0, status |-> None,
                  seen |-> <<>>, last |-> NoEvent, prevp |-> -1]]
    /\ UNCHANGED <<loop, StreamFrame>>

\* main.py:207-212, 241  the handler finds the job and returns the stream; the
\* generator starts with last_len = 0
stream_events(s, j) ==
    /\ loop = Idle /\ subs[s].pc = "none"
    /\ j \in DOMAIN JOBS
    /\ subs' = [subs EXCEPT ![s] =
                 [pc |-> "top", job |-> j, last_len |-> 0, batch |-> <<>>, base |-> 0,
                  i |-> 0, progress |-> 0, status |-> None,
                  seen |-> <<>>, last |-> NoEvent, prevp |-> -1]]
    /\ UNCHANGED <<loop, StreamFrame>>

\* main.py:213-220  (first iteration, or after the sleep) logs = job["logs"];
\* is len(logs) > last_len ?
Gen220(s) ==
    /\ loop = Idle /\ subs[s].pc = "top"
    /\ loop' = Sub(s)
    /\ subs' = [subs EXCEPT ![s].pc =
                 IF Len(JOBS[subs[s].job].logs) > subs[s].last_len THEN "l221" ELSE "l235"]
    /\ UNCHANGED StreamFrame

\* main.py:221  the slice logs[last_len:] is taken (a copy); its first entry is next
Gen221(s) ==
    /\ loop = Sub(s) /\ subs[s].pc = "l221"
    /\ LET logs == JOBS[subs[s].job].logs
       IN  subs' = [subs EXCEPT ![s].pc = IF Len(logs) > subs[s].last_len THEN "l224" ELSE "l232",
                                ![s].batch = SubSeq(logs, subs[s].last_len + 1, Len(logs)),
                                ![s].base = subs[s].last_len,
                                ![s].i = 1]
    /\ UNCHANGED <<loop, StreamFrame>>

\* main.py:224  "progress": job["progress"]
Gen224(s) ==
    /\ loop = Sub(s) /\ subs[s].pc = "l224"
    /\ subs' = [subs EXCEPT ![s].pc = "l225", ![s].progress = JOBS[subs[s].job].progress]
    /\ UNCHANGED <<loop, StreamFrame>>

\* main.py:225  "status": job["status"]
Gen225(s) ==
    /\ loop = Sub(s) /\ subs[s].pc = "l225"
    /\ subs' = [subs EXCEPT ![s].pc = "l228", ![s].status = JOBS[subs[s].job].status]
    /\ UNCHANGED <<loop, StreamFrame>>

\* Mutant of Event: the progress is the one recorded in the log entry.
EventFromEntry(s, artifact) ==
    LET e == subs[s].batch[subs[s].i]
    IN  [pos |-> subs[s].base + subs[s].i,
         progress |-> e.progress,
         status |-> subs[s].status,
         message |-> StrOr(e.message, e.status),
         artifactUrl |-> ArtifactUrl(subs[s].job, artifact)]

\* main.py:222-231  the event yielded for log entry number pos (1-based)
Event(s, artifact) ==
    LET e == subs[s].batch[subs[s].i]
    IN  [pos |-> subs[s].base + subs[s].i,
         progress |-> subs[s].progress,
         status |-> subs[s].status,
         message |-> StrOr(e.message, e.status),
         artifactUrl |-> ArtifactUrl(subs[s].job, artifact)]

\* main.py:226-231  message from the entry, artifactUrl from the job; the event
\* is yielded and the generator is suspended
Gen231(s) ==
    /\ loop = Sub(s) /\ subs[s].pc = "l228"
    /\ subs' = [subs EXCEPT ![s].pc = "yield",
                            ![s].seen = Append(@, subs[s].base + subs[s].i),
                            ![s].last = Event(s, JOBS[subs[s].job].artifact),
                            ![s].prevp = IF subs[s].last.pos = 0 THEN -1
                                         ELSE subs[s].last.progress]
    /\ loop' = Idle
    /\ UNCHANGED StreamFrame

\* main.py:221  the generator is resumed: the next entry of the slice, or the
\* loop is over
GenResume(s) ==
    /\ loop = Idle /\ subs[s].pc = "yield"
    /\ loop' = Sub(s)
    /\ subs' = IF subs[s].i < Len(subs[s].batch)
               THEN [subs EXCEPT ![s].pc = "l224", ![s].i = @ + 1]
               ELSE [subs EXCEPT ![s].pc = "l232"]
    /\ UNCHANGED StreamFrame

\* Mutant of NewLastLen: the position moves on by one entry, whatever was sent.
NewLastLenByOne(s) == subs[s].last_len + 1

\* main.py:232  last_len = len(logs), the length of the job's list now
NewLastLen(s) == Len(JOBS[subs[s].job].logs)

\* main.py:232
Gen232(s) ==
    /\ loop = Sub(s) /\ subs[s].pc = "l232"
    /\ subs' = [subs EXCEPT ![s].pc = "l235", ![s].last_len = NewLastLen(s)]
    /\ UNCHANGED <<loop, StreamFrame>>

\* Mutant of Gen235: the generator sleeps and goes round again whatever the status.
Gen235NeverStops(s) ==
    /\ loop = Sub(s) /\ subs[s].pc = "l235"
    /\ subs' = [subs EXCEPT ![s].pc = "top"]
    /\ loop' = Idle
    /\ UNCHANGED StreamFrame

\* main.py:235-238  stop on a terminal status, else sleep (the loop is given up)
Gen235(s) ==
    /\ loop = Sub(s) /\ subs[s].pc = "l235"
    /\ subs' = [subs EXCEPT ![s].pc =
                 IF JOBS[subs[s].job].status \in Terminal THEN "done" ELSE "top"]
    /\ loop' = Idle
    /\ UNCHANGED StreamFrame

event_gen(s) ==
    \/ Gen220(s) \/ Gen221(s) \/ Gen224(s) \/ Gen225(s) \/ Gen231(s)
    \/ GenResume(s) \/ Gen232(s) \/ Gen235(s)

----------------------------------------------------------------------------
\* Python strings and POSIX paths, as crewai_pipeline.py:21-59 computes on them.
\* A string is a TLA+ string; Char(s, i) is its i-th character.

Char(s, i) == SubSeq(s, i, i)

\* the characters str.strip() and str.rstrip() remove
WhiteSpace == {" ", "\t", "\n", "\r"}

\* os.sep on POSIX
Sep == "/"

RECURSIVE LStrip(_, _)
\* str.lstrip(chars)
LStrip(s, chars) ==
    IF Len(s) > 0 /\ Char(s, 1) \in chars
    THEN LStrip(SubSeq(s, 2, Len(s)), chars)
    ELSE s

RECURSIVE RStrip(_, _)
\* str.rstrip(chars)
RStrip(s, chars) ==
    IF Len(s) > 0 /\ Char(s, Len(s)) \in chars
    THEN RStrip(SubSeq(s, 1, Len(s) - 1), chars)
    ELSE s

\* str.strip()
Strip(s) == RStrip(LStrip(s, WhiteSpace), WhiteSpace)

\* str.startswith(p)
StartsWith(s, p) == Len(p) <= Len(s) /\ SubSeq(s, 1, Len(p)) = p

\* str.endswith(p)
EndsWith(s, p) == Len(p) <= Len(s) /\ SubSeq(s, Len(s) - Len(p) + 1, Len(s)) = p

RECURSIVE Replace(_, _, _)
\* str.replace(a, b) for a single character a
Replace(s, a, b) ==
    IF Len(s) = 0 THEN s
    ELSE (IF Char(s, 1) = a THEN b ELSE Char(s, 1)) \o Replace(SubSeq(s, 2, Len(s)), a, b)

RECURSIVE Split(_, _)
\* str.split(sep) for a single character sep: the sequence of the pieces
Split(s, sep) ==
    LET at == {i \in 1..Len(s) : Char(s, i) = sep}
    IN  IF at = {} THEN <<s>>
        ELSE LET i == CHOOSE k \in at : \A m \in at : k <= m
             IN  <<SubSeq(s, 1, i - 1)>> \o Split(SubSeq(s, i + 1, Len(s)), sep)

RECURSIVE Join(_, _)
\* sep.join(pieces)
Join(pieces, sep) ==
    IF Len(pieces) = 0 THEN ""
    ELSE IF Len(pieces) = 1 THEN pieces[1]
    ELSE pieces[1] \o sep \o Join(Tail(pieces), sep)

RECURSIVE NormComps(_, _, _)
\* posixpath.normpath, the loop over the components: '' and '.' are dropped,
\* '..' removes the component before it, except at the start of a relative path
\* and after another '..' (kept), and at the root (dropped)
NormComps(comps, new, rooted) ==
    IF Len(comps) = 0 THEN new
    ELSE LET comp == Head(comps)
             rest == Tail(comps)
         IN  IF comp \in {"", "."} THEN NormComps(rest, new, rooted)
             ELSE IF \/ comp /= ".."
                     \/ (~rooted /\ Len(new) = 0)
                     \/ (Len(new) > 0 /\ new[Len(new)] = "..")
                  THEN NormComps(rest, Append(new, comp), rooted)
             ELSE IF Len(new) > 0
                  THEN NormComps(rest, SubSeq(new, 1, Len(new) - 1), rooted)
             ELSE NormComps(rest, new, rooted)

\* posixpath.normpath
normpath(path) ==
    IF path = "" THEN "."
    ELSE LET slashes == IF ~StartsWith(path, "/") THEN ""
                        ELSE IF StartsWith(path, "//") /\ ~StartsWith(path, "///")
                             THEN "//" ELSE "/"
             res == slashes \o Join(NormComps(Split(path, "/"), <<>>, slashes /= ""), "/")
         IN  IF res = "" THEN "." ELSE res

\* posixpath.join(a, b)
join(a, b) ==
    IF StartsWith(b, "/") THEN b
    ELSE IF a = "" \/ EndsWith(a, "/") THEN a \o b
    ELSE a \o "/" \o b

\* main.py:112  base_dir = Path(os.getcwd()): the working directory of the server
Cwd == "/app"

\* Mutant of abspath: the path is made absolute but not normalized.
abspathUnresolved(path) == IF StartsWith(path, "/") THEN path ELSE join(Cwd, path)

\* posixpath.abspath(path)
abspath(path) == normpath(IF StartsWith(path, "/") THEN path ELSE join(Cwd, path))

\* posixpath.dirname(path)
dirname(path) ==
    LET at == {i \in 1..Len(path) : Char(path, i) = "/"}
    IN  IF at = {} THEN ""
        ELSE LET i    == CHOOSE k \in at : \A m \in at : m <= k
                 head == SubSeq(path, 1, i)
             IN  IF RStrip(head, {"/"}) = "" THEN head ELSE RStrip(head, {"/"})

\* orchestrator.py:22, 46  out_root = <base_dir>/work/<job_id>/generated-tests
OutRoot(j) == Cwd \o "/work/" \o ToString(j) \o "/generated-tests"

----------------------------------------------------------------------------
\* Path resolution and the materializer (crewai_pipeline.py:18-59).

\* crewai_pipeline.py:18
ALLOWED_ROOTS == {"unit-tests", "bdd-tests"}

\* Mutant of Inside: a plain string-prefix test.
InsideNaive(full, root_abs) == StartsWith(full, root_abs)

\* crewai_pipeline.py:26  full == root_abs or full.startswith(root_abs + os.sep)
Inside(full, root_abs) == full = root_abs \/ StartsWith(full, root_abs \o Sep)

\* crewai_pipeline.py:21-28  the resolved path, or the ValueError raised
_safe_join(root, rel) ==
    LET r        == LStrip(Strip(rel), {"/", "\\"})
        full     == abspath(join(root, r))
        root_abs == abspath(root)
    IN  IF Inside(full, root_abs)
        THEN [ok |-> TRUE, full |-> full]
        ELSE [ok |-> FALSE, full |-> "Unsafe path refused: " \o r]

RECURSIVE CrToLf(_)
\* crewai_pipeline.py:36  re.sub(r"\r\n?", "\n", text)
CrToLf(text) ==
    IF Len(text) = 0 THEN text
    ELSE IF Char(text, 1) = "\r"
         THEN "\n" \o CrToLf(SubSeq(text, IF Len(text) > 1 /\ Char(text, 2) = "\n" THEN 3 ELSE 2,
                                    Len(text)))
         ELSE Char(text, 1) \o CrToLf(SubSeq(text, 2, Len(text)))

\* Mutant of _clean_body: blanks are stripped at both ends.
_clean_bodyStripsBoth(text) ==
    IF text = None THEN "" ELSE Strip(CrToLf(text)) \o "\n"

\* crewai_pipeline.py:31-36
_clean_body(text) ==
    IF text = None THEN "" ELSE RStrip(CrToLf(text), WhiteSpace) \o "\n"

\* Mutant of Allowed: every path passes the allow-list.
AllowedAny(rel) == TRUE

\* crewai_pipeline.py:47  rel == p or rel.startswith(p + "/") for some allowed root p
Allowed(rel) == \E p \in ALLOWED_ROOTS : rel = p \/ StartsWith(rel, p \o "/")

\* the directories above a path
DirsAbove(path) == {SubSeq(path, 1, i - 1) : i \in {k \in 2..Len(path) : Char(path, k) = "/"}}

\* the output tree before a materializer run: no file, the root directory there
EmptyTree(out_root) ==
    [count |-> 0, files |-> <<>>, dirs |-> {abspath(out_root)}, raised |-> None]

\* crewai_pipeline.py:46-56  the body of the loop for one match: the tree after
\* it.  os.makedirs raises when the directory of the path, or one above it, is
\* a file; open() raises when the path is a directory.
WriteBlock(m, out_root, tree) ==
    LET rel == Replace(Strip(m.path), "\\", "/")
    IN  IF ~Allowed(rel) THEN tree
        ELSE LET body == _clean_body(m.body)
                 res  == _safe_join(out_root, rel)
                 full == res.full
             IN  IF ~res.ok THEN [tree EXCEPT !.raised = "ValueError"]
                 ELSE IF dirname(full) \in DOMAIN tree.files
                      THEN [tree EXCEPT !.raised = "FileExistsError"]
                 ELSE IF DirsAbove(full) \cap DOMAIN tree.files /= {}
                      THEN [tree EXCEPT !.raised = "NotADirectoryError"]
                 ELSE IF full \in tree.dirs
                      THEN [tree EXCEPT !.raised = "IsADirectoryError"]
                 ELSE [tree EXCEPT !.files = (full :> body) @@ tree.files,
                                   !.dirs  = @ \cup {d \in DirsAbove(full) :
                                                       Inside(d, abspath(out_root))},
                                   !.count = @ + 1]

RECURSIVE WriteBlocks(_, _, _)
\* crewai_pipeline.py:45  the loop over the matches; an exception ends it
WriteBlocks(matches, out_root, tree) ==
    IF Len(matches) = 0 \/ tree.raised /= None THEN tree
    ELSE WriteBlocks(Tail(matches), out_root, WriteBlock(Head(matches), out_root, tree))

\* crewai_pipeline.py:44-45  the matches of one grammar in the text, in text order
Matches(text, grammar) == SelectSeq(text, LAMBDA b : b.grammar = grammar)

\* Mutant of _materialize: one pass over the blocks in text order.
_materializeTextOrder(text, out_root) ==
    WriteBlocks(text, out_root, EmptyTree(out_root))

\* crewai_pipeline.py:39-59  the count returned or the exception raised, and the
\* files written.  The text is the sequence of its file blocks; the matches of
\* the fenced-marker grammar (A) are processed before those of the plain one (B).
_materialize(text, out_root) ==
    WriteBlocks(Matches(text, "A") \o Matches(text, "B"), out_root, EmptyTree(out_root))

----------------------------------------------------------------------------
\* Calls of _safe_join and _materialize on their own, on bounded arguments.

\* Bound of the model: the number of segments of a path given to _safe_join.
MaxSegs == 3

\* Bound of the model: the number of file blocks in a generator text.
MaxBlocks == 2

Segs == {"..", ".", "a", "out2"}

\* what a path may start with: nothing, a separator, a backslash, a blank
Leads == {"", "/", "\\", " "}

RelPaths ==
    {"a/b.txt", "../../etc/passwd", "/etc/passwd", "../out2/x"} \cup
    {lead \o Join(segs, "/") :
        lead \in Leads, segs \in UNION {[1..n -> Segs] : n \in 0..MaxSegs}}

JoinRoots == {"/out", OutRoot(1)}

BlockPaths ==
    {"unit-tests/Foo.java", "bdd-tests/a.feature", "scripts/evil.sh",
     "unit-tests/../scripts/evil.sh", "unit-tests/../../../2/generated-tests/x",
     "unit-tests/..", "unit-tests", "/unit-tests/Foo.java", "unit-tests\\Foo.java"}

\* every path with one body, in either grammar, and one path with another body
Blocks ==
    [grammar : {"A", "B"}, path : BlockPaths, body : {"class Foo {}\r\n"}] \cup
    [grammar : {"A", "B"}, path : {"unit-tests/Foo.java"}, body : {"class Bar {}"}]

Texts == UNION {[1..n -> Blocks] : n \in 0..MaxBlocks}

InitFiles ==
    /\ InitJobs
    /\ \/ \E root \in JoinRoots, rel \in RelPaths :
            fn = [op |-> "_safe_join", root |-> root, rel |-> rel, pending |-> TRUE]
       \/ \E text \in Texts :
            fn = [op |-> "_materialize", text |-> text, out_root |-> OutRoot(1),
                  pending |-> TRUE]

FilesFrame == <<JOBS, env, w, ran, calls, loop, poll, polls, subs>>

\* crewai_pipeline.py:21-28  one call of _safe_join
SafeJoinCall ==
    /\ fn.op = "_safe_join"
    /\ fn.pending
    /\ fn' = [op |-> "_safe_join", root |-> fn.root, rel |-> fn.rel, pending |-> FALSE,
              out |-> _safe_join(fn.root, fn.rel)]
    /\ UNCHANGED FilesFrame

\* crewai_pipeline.py:39-59  one call of _materialize
MaterializeCall ==
    /\ fn.op = "_materialize"
    /\ fn.pending
    /\ fn' = [op |-> "_materialize", text |-> fn.text, out_root |-> fn.out_root,
              pending |-> FALSE, out |-> _materialize(fn.text, fn.out_root)]
    /\ UNCHANGED FilesFrame

NextFiles == SafeJoinCall \/ MaterializeCall

SpecFiles == InitFiles /\ [][NextFiles]_vars

----------------------------------------------------------------------------
NextJobs ==
    \/ \E j \in JobIds, has_key \in BOOLEAN : build(j, has_key, "openai")
    \/ \E j \in JobIds : Worker(j)

\* The job state machine: submissions and the workers of all jobs.
Next == NextJobs

Spec == Init /\ [][Next]_vars

\* The first job is submitted with an API key, every later job without one.
NextKeyed ==
    \/ build(1, TRUE, "openai")
    \/ \E j \in JobIds \ {1} : build(j, FALSE, "openai")
    \/ \E j \in JobIds : Worker(j)

SpecKeyed == Init /\ [][NextKeyed]_vars

\* One job and its worker, polled by get_job calls.  (A reader reads one job and
\* writes nothing, and jobs share nothing but env.)
NextOne ==
    \/ \E has_key \in BOOLEAN : build(1, has_key, "openai")
    \/ Worker(1)

\* the providers a request may name; the form's default is openai
Providers == {"", "openai", "OpenAI", "anthropic"}

\* One job submitted with any provider, and its worker.
NextOpts ==
    \/ \E has_key \in BOOLEAN, llm_provider \in Providers : build(1, has_key, llm_provider)
    \/ Worker(1)

SpecOpts == Init /\ [][NextOpts]_vars

\* The job state machine with fair workers: the thread pool runs the worker of
\* every submitted job, and a worker that can take a step takes it.
SpecFair == Init /\ [][Next]_vars /\ \A j \in JobIds : WF_vars(Worker(j))

\* One job and its worker, with the progress callback called from outside too.
SpecCb == Init /\ [][NextOne \/ \E pct \in CallPcts : ProgressCall(1, pct)]_vars

SpecPoll == Init /\ [][NextOne \/ get_job]_vars

\* One job and its worker, streamed to two subscribers attached at different
\* times: the first at any time after the submission, the second after the worker
\* has ended.
NextStream ==
    \/ stream_events(1, 1)
    \/ (w[1].pc = "done" /\ stream_events(2, 1))
    \/ \E s \in SubIds : event_gen(s)

SpecStream == Init /\ [][NextOne \/ NextStream]_vars

\* One job with its streams, fairly scheduled: the thread pool runs the worker,
\* and the event loop, which serves its ready tasks in turn, resumes every
\* generator again and again (its client keeps reading).
SpecStreamFair ==
    /\ Init /\ [][NextOne \/ NextStream]_vars
    /\ WF_vars(Worker(1))
    /\ \A s \in SubIds : SF_vars(event_gen(s))

----------------------------------------------------------------------------
\* Properties.

StatusStep(a, b) ==
    \/ a = b
    \/ a = "pending" /\ b = "running"
    \/ a = "running" /\ b \in Terminal

\* C1: a job is created pending, its status only ever goes pending -> running,
\* running -> succeeded or running -> failed, and nothing changes a status that
\* is succeeded or failed: neither the worker nor any call of the callback.
C1_StatusTransitions ==
    [][ /\ \A j \in DOMAIN JOBS : StatusStep(JOBS[j].status, JOBS'[j].status)
        /\ \A j \in DOMAIN JOBS' \ DOMAIN JOBS : JOBS'[j].status = "pending" ]_vars

\* the callback has been called on job 1 after its worker ended it
C1_Witness ==
    /\ 1 \in DOMAIN JOBS
    /\ w[1].pc = "done"
    /\ JOBS[1].status \in Terminal
    /\ JOBS[1].logs /= <<>>
    /\ JOBS[1].logs[Len(JOBS[1].logs)].status = "Update"

\* C2: the progress of successive get_job responses for a job never decreases,
\* and after a response that was terminal (or that was made when the job already
\* was) every later response carries the same progress.
C2_PollProgressMonotone ==
    LET a == polls[1]
        b == polls[2]
    IN  (a.job /= 0 /\ a.job = b.job) =>
            /\ a.progress <= b.progress
            /\ (a.status \in Terminal \/ a.after) => b.progress = a.progress

\* a response of a running job followed by a response with more progress, and
\* a terminal status
C2_Witness ==
    /\ polls[1].job /= 0
    /\ polls[1].status = "running"
    /\ polls[2].status \in Terminal
    /\ polls[1].progress < polls[2].progress

\* C3 (as claimed): once a job is succeeded or failed, no step changes its
\* status, its progress or its artifact; a call of the callback is such a step.
C3_TerminalFrozen ==
    [][ \A j \in DOMAIN JOBS :
          JOBS[j].status \in Terminal =>
            /\ JOBS'[j].status = JOBS[j].status
            /\ JOBS'[j].progress = JOBS[j].progress
            /\ JOBS'[j].artifact = JOBS[j].artifact ]_vars

\* C4: in every state, also between two writes of the worker, a succeeded job
\* has its artifact recorded and progress 100.
C4_SucceededHasArtifact ==
    \A j \in DOMAIN JOBS :
        JOBS[j].status = "succeeded" =>
            JOBS[j].artifact /= None /\ JOBS[j].progress = 100

\* a job is succeeded and its worker has not finished its writes
C4_Witness ==
    \E j \in DOMAIN JOBS : JOBS[j].status = "succeeded" /\ w[j].pc = "s167"

\* C5 (as claimed): a get_job response with status failed carries the failure:
\* its log ends with the Error entry and its message is that error's message.
C5_FailedPollHasDetail ==
    LET r == polls[2]
    IN  (r.job /= 0 /\ r.status = "failed") =>
            /\ r.logs /= <<>>
            /\ r.logs[Len(r.logs)].status = "Error"
            /\ r.message = ErrorMessage(r.logs[Len(r.logs)].message)

\* the number of times log position i was delivered to subscriber s
Delivered(s, i) == Cardinality({k \in 1..Len(subs[s].seen) : subs[s].seen[k] = i})

Attached(s) == subs[s].pc /= "none"

\* C6 (as claimed): whatever the worker appends and whenever, a subscriber is
\* delivered every log entry exactly once: no entry is delivered twice, and no
\* entry that the subscriber's position last_len has moved past was left out.
\* This for each of the two subscribers.
C6_EveryEntryOnce ==
    \A s \in SubIds :
        Attached(s) =>
            /\ \A i \in 1..Len(JOBS[subs[s].job].logs) : Delivered(s, i) <= 1
            /\ \A i \in 1..subs[s].last_len : Delivered(s, i) = 1

\* the entry appended by the terminal transition: 'Artifact ready' or 'Error'
TerminalEntry(e) ==
    \/ e.status = "Complete" /\ e.message = "Artifact ready"
    \/ e.status = "Error"

\* C7 (as claimed): a stream that has ended has delivered the log up to and
\* including the entry appended by the terminal transition.
C7_FlushedBeforeEnd ==
    \A s \in SubIds :
        (Attached(s) /\ subs[s].pc = "done") =>
            \E k \in 1..Len(JOBS[subs[s].job].logs) :
                /\ TerminalEntry(JOBS[subs[s].job].logs[k])
                /\ \A i \in 1..k : Delivered(s, i) = 1

\* C8: the log positions delivered to a subscriber are strictly increasing:
\* nothing twice, nothing before an earlier entry.
C8_PositionsIncrease ==
    \A s \in SubIds :
        Attached(s) =>
            \A k \in 1..(Len(subs[s].seen) - 1) : subs[s].seen[k] < subs[s].seen[k + 1]

\* a subscriber was delivered entries of two slices, the worker appending between
C8_Witness ==
    /\ Attached(1)
    /\ Len(subs[1].seen) >= 3
    /\ subs[1].base > 0
    /\ subs[1].last.pos > subs[1].base + 1

\* C9: the progress values of the events delivered to a subscriber never
\* decrease from one event to the next.
C9_EventProgressMonotone ==
    \A s \in SubIds :
        (Attached(s) /\ subs[s].prevp >= 0) => subs[s].prevp <= subs[s].last.progress

\* two events in a row, the second with more progress than the first
C9_Witness ==
    /\ Attached(1)
    /\ subs[1].prevp >= 0
    /\ subs[1].prevp < subs[1].last.progress

\* the error a required stage raises when it fails
RequiredFailure(stage) ==
    CASE stage = "fetch" -> FetchError
      [] stage = "scan"  -> NoJavaError
      [] stage = "pack"  -> PackError

\* the progress the last call of the callback left in the log
LastReported(logs) ==
    LET cbs == {k \in 1..Len(logs) : logs[k].status /= "Error"}
    IN  IF cbs = {} THEN 0
        ELSE logs[CHOOSE k \in cbs : \A m \in cbs : m <= k].progress

\* C10: when a required stage (fetch, scan, packaging) has failed, it is the
\* last stage of the job that ran, the job is not succeeded and is failed once
\* its worker has ended, and its progress is the one last reported before the
\* failure.
C10_RequiredFailureStops ==
    \A j \in DOMAIN JOBS :
        \A stage \in {"fetch", "scan", "pack"} :
            w[j].exc = RequiredFailure(stage) =>
                /\ ran[j] /= <<>> /\ ran[j][Len(ran[j])] = stage
                /\ JOBS[j].status /= "succeeded"
                /\ JOBS[j].artifact = None
                /\ w[j].pc = "done" => JOBS[j].status = "failed"
                /\ JOBS[j].progress = LastReported(JOBS[j].logs)
                /\ JOBS[j].progress = Pct(stage)

\* the packaging stage failed and the worker has ended
C10_Witness ==
    \E j \in DOMAIN JOBS :
        /\ w[j].exc = PackError
        /\ w[j].pc = "done"
        /\ JOBS[j].status = "failed"
        /\ JOBS[j].progress = 85

----------------------------------------------------------------------------
\* The generation stage and the fallback path.

\* the errors a failed generator call raises
GenFailures == {ProviderError, NoKeyError, CrewError, UnsafeError, GenError}

\* the generator call of job j has failed
GenFailed(j) == w[j].gen \in {"provider", "nokey", "crash", "unsafe", "zero"}

\* all five stage bodies, the fallback scaffold included
FallbackRun == <<"fetch", "scan", "gen", "fallback", "pack">>

\* C11: when the generator call of a job has failed and the stage had read no
\* key (generation not required), the failure is never raised out of the
\* pipeline; the fallback scaffold is written next and packaging runs after
\* it; and the job whose worker has ended is succeeded with its artifact,
\* unless packaging or the archive check itself has failed.
C11_OptionalFailureFallsBack ==
    \A j \in DOMAIN JOBS :
        (GenFailed(j) /\ ~w[j].ai_required) =>
            /\ w[j].exc \notin GenFailures
            /\ w[j].pc \notin {"except76", "fallback85"} =>
                   SubSeq(ran[j], 1, 4) = SubSeq(FallbackRun, 1, 4)
            /\ w[j].pc = "done" =>
                   /\ ran[j] = FallbackRun
                   /\ \/ /\ w[j].exc = None
                         /\ JOBS[j].status = "succeeded"
                         /\ JOBS[j].artifact = ZipPath(j)
                      \/ w[j].exc \in {PackError, NoZipError}

\* a job whose generator call failed without a key has ended succeeded, on the
\* fallback scaffold
C11_Witness ==
    \E j \in DOMAIN JOBS :
        /\ GenFailed(j) /\ ~w[j].ai_required
        /\ w[j].pc = "done"
        /\ ran[j] = FallbackRun
        /\ JOBS[j].status = "succeeded"
        /\ JOBS[j].artifact /= None

\* a log entry that records the failure e
RecordsFailure(entry, e) ==
    \/ entry.message = e
    \/ entry.status = e
    \/ entry.status = "Warning"

\* C12: when the generator call of a job has failed, the stage had read no
\* key and the fallback scaffold was written, the job's log holds an entry
\* that records the failure.
C12_FallbackWarningLogged ==
    \A j \in DOMAIN JOBS :
        (GenFailed(j) /\ ~w[j].ai_required /\ ran[j] = FallbackRun) =>
            \E k \in DOMAIN JOBS[j].logs :
                RecordsFailure(JOBS[j].logs[k], GenFailure(w[j].gen))

\* the generator call of job j ran with a key in the environment (without one it
\* ends "nokey") and failed
GenFailedWithKey(j) == w[j].gen \in {"crash", "unsafe", "zero"}

\* C13: when the generator call of a job has failed with a key present in the
\* environment, the failure is raised out of the pipeline: neither the
\* fallback scaffold nor packaging runs, the job is never succeeded, has no
\* artifact, and is failed once its worker has ended.
C13_KeyedFailurePropagates ==
    \A j \in DOMAIN JOBS :
        GenFailedWithKey(j) =>
            /\ ran[j] = <<"fetch", "scan", "gen">>
            /\ JOBS[j].status /= "succeeded"
            /\ JOBS[j].artifact = None
            /\ w[j].pc = "done" => JOBS[j].status = "failed"

\* C14: a job submitted without an API key treats a failure of its generator
\* call as optional, whatever other jobs were submitted with a key: the stage
\* reads generation as not required, and the failure is not raised out of the
\* pipeline.  (Under SpecKeyed the jobs after the first are the ones submitted
\* without a key.)
C14_KeylessJobOptional ==
    \A j \in DOMAIN JOBS \ {1} :
        /\ ~w[j].ai_required
        /\ GenFailed(j) => w[j].exc \notin GenFailures

\* C15: when the generation stage of a job had read a key (generation
\* required) and its generator call returned text from which no file was
\* written, the stage has failed with the no-file-blocks error: no later
\* stage runs, the job is never succeeded, has no artifact, and is failed once
\* its worker has ended.
C15_RequiredZeroFilesFails ==
    \A j \in DOMAIN JOBS :
        (w[j].ai_required /\ w[j].gen = "zero") =>
            /\ ran[j] = <<"fetch", "scan", "gen">>
            /\ w[j].pc /= "except76" => w[j].exc = GenError
            /\ JOBS[j].status /= "succeeded"
            /\ JOBS[j].artifact = None
            /\ w[j].pc = "done" =>
                   /\ JOBS[j].status = "failed"
                   /\ JOBS[j].message = ErrorMessage(GenError)

\* a job with generation required has ended failed on a run that wrote no file
C15_Witness ==
    \E j \in DOMAIN JOBS :
        /\ w[j].ai_required /\ w[j].gen = "zero"
        /\ w[j].pc = "done"
        /\ JOBS[j].status = "failed"

----------------------------------------------------------------------------
\* Stage order and the progress entries.

IsPrefix(s, t) == Len(s) <= Len(t) /\ s = SubSeq(t, 1, Len(s))

\* the stage bodies of a job whose generator wrote files
GeneratedRun == <<"fetch", "scan", "gen", "pack">>

\* C16: the stage bodies a job has executed are an initial part of fetch, scan,
\* generate, fallback scaffold, package, or of the same without the fallback
\* scaffold: fixed order, each at most once, and none again after it failed.
C16_StagesInOrderOnce ==
    \A j \in JobIds :
        \/ IsPrefix(ran[j], FallbackRun)
        \/ IsPrefix(ran[j], GeneratedRun)

\* one job has run all five stage bodies and another the four without fallback
C16_Witness ==
    \E i, j \in DOMAIN JOBS :
        /\ w[i].pc = "done" /\ ran[i] = FallbackRun
        /\ w[j].pc = "done" /\ ran[j] = GeneratedRun

\* the stages announced by a call of the progress callback, and for each the
\* stage body that comes before it
Announced == {"fetch", "scan", "gen", "pack", "complete"}

Before(stage) ==
    CASE stage = "scan"     -> "fetch"
      [] stage = "gen"      -> "scan"
      [] stage = "pack"     -> "gen"
      [] stage = "complete" -> "pack"

\* the log holds the progress entry of the stage
HasEntry(logs, stage) ==
    \E k \in DOMAIN logs : logs[k] = Entry(Pct(stage), Label(stage), "")

Ran(j, stage) == \E k \in DOMAIN ran[j] : ran[j][k] = stage

\* C17 as stated: a job's log holds the progress entry of a stage only when
\* the body of that stage has been executed.
C17_EntryAfterStage ==
    \A j \in DOMAIN JOBS :
        \A stage \in Announced \ {"complete"} :
            HasEntry(JOBS[j].logs, stage) => Ran(j, stage)

\* C17: the progress entry of a stage is appended before the body of the stage
\* starts and after the stage before it has completed: a stage that has been
\* executed has its entry in the log, and the log holds the entry of a stage
\* (or the final 'Complete' entry) only when the stage before it has been
\* executed.
C17_EntryBeforeStage ==
    \A j \in DOMAIN JOBS :
        \A stage \in Announced :
            /\ (stage /= "complete" /\ Ran(j, stage)) => HasEntry(JOBS[j].logs, stage)
            /\ (stage /= "fetch" /\ HasEntry(JOBS[j].logs, stage)) => Ran(j, Before(stage))

\* the log holds the 'Packaging' entry and the packaging body has not run yet
C17_Witness ==
    \E j \in DOMAIN JOBS :
        /\ HasEntry(JOBS[j].logs, "pack")
        /\ ~Ran(j, "pack")
        /\ Ran(j, "gen")

----------------------------------------------------------------------------
\* Path resolution and the files the materializer writes.

\* a call of _safe_join has returned or raised
Joined == fn.op = "_safe_join" /\ ~fn.pending

\* a call of _materialize has returned or raised
Materialized == fn.op = "_materialize" /\ ~fn.pending

\* C18 as stated: with root '/out', _safe_join accepts 'a/b.txt' and raises for
\* '../../etc/passwd', for '/etc/passwd' and for '../out2/x' (which resolves
\* under the sibling '/out2').
C18_SafeJoinCases ==
    (Joined /\ fn.root = "/out") =>
        /\ fn.rel = "a/b.txt" => fn.out.ok
        /\ fn.rel \in {"../../etc/passwd", "/etc/passwd", "../out2/x"} => ~fn.out.ok

\* C18: with root '/out', _safe_join accepts 'a/b.txt' as '/out/a/b.txt' and
\* accepts '/etc/passwd', the leading separator stripped, as
\* '/out/etc/passwd'; it raises for '../../etc/passwd' and for '../out2/x'.
C18_SafeJoinCasesStripped ==
    (Joined /\ fn.root = "/out") =>
        /\ fn.rel = "a/b.txt" => fn.out = [ok |-> TRUE, full |-> "/out/a/b.txt"]
        /\ fn.rel = "/etc/passwd" => fn.out = [ok |-> TRUE, full |-> "/out/etc/passwd"]
        /\ fn.rel \in {"../../etc/passwd", "../out2/x"} => ~fn.out.ok

\* _safe_join has answered '/etc/passwd' under root '/out'
C18_Witness ==
    /\ Joined /\ fn.root = "/out"
    /\ fn.rel = "/etc/passwd"
    /\ fn.out.ok

\* the segments of a path
Comps(path) == SelectSeq(Split(path, "/"), LAMBDA c : c /= "")

\* the path is the directory or lies below it, segment by segment, and has no
\* '.' or '..' segment left
Under(path, dir) ==
    /\ IsPrefix(Comps(dir), Comps(path))
    /\ \A k \in DOMAIN Comps(path) : Comps(path)[k] \notin {".", ".."}

\* C19: every path _safe_join returns is its root directory or lies below it
\* on a segment boundary (never in a sibling whose name starts with the root's
\* name), and so does every file _materialize writes for a job: none lies in
\* the output tree of another job.
C19_ResolvedInsideRoot ==
    /\ (Joined /\ fn.out.ok) =>
           /\ Under(fn.out.full, fn.root)
           /\ ~Under(fn.out.full, fn.root \o "2")
    /\ Materialized =>
           \A path \in DOMAIN fn.out.files :
               /\ Under(path, fn.out_root)
               /\ ~Under(path, OutRoot(2))

\* a text with a block under an allow-listed root and a block aimed at another
\* job's tree was materialized: one file written, then the ValueError
C19_Witness ==
    /\ Materialized
    /\ fn.out.count = 1
    /\ fn.out.raised = "ValueError"

\* the path is one of the allow-listed roots of the output directory or lies
\* below it
UnderAllowedRoot(path, out_root) ==
    \E p \in ALLOWED_ROOTS : Under(path, out_root \o "/" \o p)

\* C20: every file _materialize writes lies, its path normalized, under
\* unit-tests or bdd-tests of the output directory, and a text whose blocks all
\* have a path that is not under an allow-listed root yields no file, count 0
\* and no error.
C20_WrittenUnderAllowedRoots ==
    Materialized =>
        /\ \A path \in DOMAIN fn.out.files : UnderAllowedRoot(path, fn.out_root)
        /\ (\A k \in DOMAIN fn.text :
               ~UnderAllowedRoot(abspath(join(fn.out_root, Strip(fn.text[k].path))),
                                 fn.out_root))
           => fn.out = EmptyTree(fn.out_root)

----------------------------------------------------------------------------
\* What the materializer writes and returns.

\* a declared path made of ordinary segments only: no blank or separator in
\* front, no backslash, no '.' or '..' segment, at least two segments
Plain(path) ==
    /\ path = Join(Comps(path), "/")
    /\ Replace(Strip(path), "\\", "/") = path
    /\ Len(Comps(path)) >= 2
    /\ \A k \in DOMAIN Comps(path) : Comps(path)[k] \notin {".", ".."}

\* a plain path whose first segment is an allow-listed root
PlainAllowed(path) == Plain(path) /\ Comps(path)[1] \in ALLOWED_ROOTS

\* the blocks of a text with a plain path under an allow-listed root
AllowedBlocks(text) == SelectSeq(text, LAMBDA b : PlainAllowed(b.path))

\* a text whose blocks all have plain paths
PlainText(text) == \A k \in DOMAIN text : Plain(text[k].path)

\* C21: for a text whose blocks have plain paths, some under an allow-listed
\* root and some under other roots, _materialize raises nothing, writes a file
\* for each block under an allow-listed root and for no other, and returns the
\* number of blocks it wrote; one block 'unit-tests/Foo.java' with one block
\* 'scripts/evil.sh' gives one file and count 1.
C21_WritesExactlyAllowed ==
    (Materialized /\ PlainText(fn.text)) =>
        /\ fn.out.raised = None
        /\ DOMAIN fn.out.files =
               {fn.out_root \o "/" \o AllowedBlocks(fn.text)[k].path :
                    k \in DOMAIN AllowedBlocks(fn.text)}
        /\ fn.out.count = Len(AllowedBlocks(fn.text))
        /\ [k \in DOMAIN fn.text |-> fn.text[k].path]
               \in {<<"unit-tests/Foo.java", "scripts/evil.sh">>,
                    <<"scripts/evil.sh", "unit-tests/Foo.java">>}
               => /\ fn.out.count = 1
                  /\ DOMAIN fn.out.files = {fn.out_root \o "/unit-tests/Foo.java"}

\* the text with 'unit-tests/Foo.java' and then 'scripts/evil.sh' was
\* materialized: one file, count 1
C21_Witness ==
    /\ Materialized
    /\ Len(fn.text) = 2
    /\ fn.text[1].path = "unit-tests/Foo.java"
    /\ fn.text[2].path = "scripts/evil.sh"
    /\ fn.out.count = 1
    /\ Cardinality(DOMAIN fn.out.files) = 1

\* the place of block k of a text in the order of processing: the blocks of the
\* fenced-marker grammar (A) first, then those of the FILE:-line grammar (B),
\* each group in text order
Place(text, k) == (IF text[k].grammar = "A" THEN 0 ELSE Len(text)) + k

\* the block of the text processed last among those that declare the path
LastBlock(text, path) ==
    LET ks == {k \in DOMAIN text : text[k].path = path}
    IN  text[CHOOSE k \in ks : \A m \in ks : Place(text, m) <= Place(text, k)]

\* the bodies of the model's blocks, normalized: line ends as '\n', one final
\* newline
Normalized(body) ==
    CASE body = "class Foo {}\r\n" -> "class Foo {}\n"
      [] body = "class Bar {}"     -> "class Bar {}\n"

\* C22: after _materialize has run on a text of blocks with plain paths, every
\* file holds the normalized body of the block processed last among the
\* blocks declaring its path, where grammar A blocks are processed before
\* grammar B blocks and the blocks of one grammar in text order.
C22_LastBlockWins ==
    (Materialized /\ PlainText(fn.text)) =>
        \A k \in DOMAIN AllowedBlocks(fn.text) :
            LET path == AllowedBlocks(fn.text)[k].path
            IN  fn.out.files[fn.out_root \o "/" \o path]
                    = Normalized(LastBlock(fn.text, path).body)

\* a grammar B block followed in the text by a grammar A block with the same
\* path and another body: the file holds the body of the grammar B block
C22_Witness ==
    /\ Materialized
    /\ Len(fn.text) = 2
    /\ fn.text[1].path = fn.text[2].path
    /\ fn.text[1].grammar = "B" /\ fn.text[2].grammar = "A"
    /\ fn.text[1].body /= fn.text[2].body
    /\ fn.out.count = 2
    /\ fn.out.files[fn.out_root \o "/" \o fn.text[1].path] = Normalized(fn.text[1].body)

\* a declared path that passes the allow-list test and resolves outside the
\* output directory
Escaping(path, out_root) ==
    LET rel == Replace(Strip(path), "\\", "/")
    IN  /\ \E p \in ALLOWED_ROOTS : StartsWith(rel, p \o "/")
        /\ ~Under(normpath(out_root \o "/" \o rel), out_root)

\* C23: when a text holds blocks with plain paths under an allow-listed root
\* and blocks whose path escapes the output directory, _materialize raises
\* nothing, drops the escaping blocks only, and writes and counts every
\* other block.
C23_UnsafeBlockDropped ==
    (/\ Materialized
     /\ \A k \in DOMAIN fn.text :
            PlainAllowed(fn.text[k].path) \/ Escaping(fn.text[k].path, fn.out_root)
     /\ \E k \in DOMAIN fn.text : PlainAllowed(fn.text[k].path)
     /\ \E k \in DOMAIN fn.text : Escaping(fn.text[k].path, fn.out_root))
    => /\ fn.out.raised = None
       /\ fn.out.count = Len(AllowedBlocks(fn.text))
       /\ DOMAIN fn.out.files =
              {fn.out_root \o "/" \o AllowedBlocks(fn.text)[k].path :
                   k \in DOMAIN AllowedBlocks(fn.text)}

----------------------------------------------------------------------------
\* Packaging (agent/utils/zipper.py).  A directory tree is the set of its
\* regular files, the set of its empty directories, the files that cannot be
\* opened and the directories that cannot be listed, all by full path.  The
\* order in which a directory lists its names is the file system's choice.

\* Bound of the model: how often one directory tree is packed.
MaxPacks == 2

\* posixpath.basename(path)
basename(path) ==
    LET at == {i \in 1..Len(path) : Char(path, i) = "/"}
    IN  IF at = {} THEN path
        ELSE SubSeq(path, (CHOOSE k \in at : \A m \in at : m <= k) + 1, Len(path))

\* the path segments of posixpath.relpath: [x for x in abspath(p).split(sep) if x]
PathList(path) == SelectSeq(Split(abspath(path), "/"), LAMBDA x : x /= "")

\* len(commonprefix([start_list, path_list]))
CommonLen(a, b) ==
    LET lens == {n \in 0..Len(a) : n <= Len(b) /\ \A k \in 1..n : a[k] = b[k]}
    IN  CHOOSE n \in lens : \A m \in lens : m <= n

\* Mutant of relpath: the path is taken relative to the directory above start.
relpathFromParent(path, start) ==
    LET start_list == PathList(dirname(abspath(start)))
        path_list  == PathList(path)
        i          == CommonLen(start_list, path_list)
    IN  Join([k \in 1..(Len(start_list) - i) |-> ".."]
             \o SubSeq(path_list, i + 1, Len(path_list)), "/")

\* posixpath.relpath(path, start)
relpath(path, start) ==
    LET start_list == PathList(start)
        path_list  == PathList(path)
        i          == CommonLen(start_list, path_list)
        rel_list   == [k \in 1..(Len(start_list) - i) |-> ".."]
                      \o SubSeq(path_list, i + 1, Len(path_list))
    IN  IF rel_list = <<>> THEN "." ELSE Join(rel_list, "/")

\* the directories of a tree below its top
TreeDirs(tree, top) ==
    tree.empty \cup
    {d \in UNION {DirsAbove(f) : f \in tree.files} : Len(d) > Len(top)}

\* os.scandir(folder): the names in a directory
Names(tree, top, folder) ==
    {basename(p) : p \in {q \in tree.files \cup TreeDirs(tree, top) : dirname(q) = folder}}

\* the orders in which a set of names can be listed
Orders(names) ==
    {s \in [1..Cardinality(names) -> names] : \A i, k \in DOMAIN s : s[i] = s[k] => i = k}

\* one listing order for each of the folders
RECURSIVE Enumerations(_, _, _)
Enumerations(tree, top, folders) ==
    IF folders = {} THEN {<<>>}
    ELSE LET d == CHOOSE x \in folders : TRUE
         IN  {(d :> s) @@ e : s \in Orders(Names(tree, top, d)),
                              e \in Enumerations(tree, top, folders \ {d})}

\* os.walk(top), top-down, onerror=None: a folder that cannot be listed is
\* passed over without an error; the folders below one follow it in the order
\* of its listing.  The result is the sequence of (folder, files).
RECURSIVE walk(_, _, _, _)
walk(tree, enum, top, folders) ==
    IF folders = <<>> THEN <<>>
    ELSE LET folder == Head(folders)
             names  == enum[folder]
             files  == SelectSeq(names, LAMBDA n : join(folder, n) \in tree.files)
             dirs   == SelectSeq(names, LAMBDA n : join(folder, n) \notin tree.files)
             below  == [k \in DOMAIN dirs |-> join(folder, dirs[k])]
         IN  IF folder \in tree.locked
             THEN walk(tree, enum, top, Tail(folders))
             ELSE <<[folder |-> folder, files |-> files]>>
                  \o walk(tree, enum, top, below)
                  \o walk(tree, enum, top, Tail(folders))

\* zipper.py:7-8  full = os.path.join(folder, fn) for the files of the steps
RECURSIVE Fulls(_)
Fulls(steps) ==
    IF steps = <<>> THEN <<>>
    ELSE [k \in DOMAIN Head(steps).files |-> join(Head(steps).folder, Head(steps).files[k])]
         \o Fulls(Tail(steps))

\* zipper.py:9-10  arc = os.path.relpath(full, src_dir); z.write(full, arcname=arc)
\* for each file in turn.  z.write opens the file: one that cannot be opened
\* raises, and the archive keeps the entries written before it.
RECURSIVE WriteEntries(_, _, _, _)
WriteEntries(fulls, tree, src_dir, entries) ==
    IF fulls = <<>> THEN [entries |-> entries, raised |-> None]
    ELSE IF Head(fulls) \in tree.unreadable
         THEN [entries |-> entries, raised |-> "PermissionError"]
         ELSE WriteEntries(Tail(fulls), tree, src_dir,
                           Append(entries, relpath(Head(fulls), src_dir)))

\* zipper.py:3-10  zip_dir(src_dir, zip_path): the entries of the archive it
\* leaves, in order, and the exception it raised
zip_dir(tree, enum, src_dir) ==
    WriteEntries(Fulls(walk(tree, enum, src_dir, <<src_dir>>)), tree, src_dir, <<>>)

\* the files a packed directory may hold, by path below the directory
ZipFiles == {"c.txt", "a/b.txt", "a/d.txt", "k/e/f.txt"}

\* the empty directory it may hold
ZipEmptyDirs == {"g"}

\* at most one element of a set
AtMostOne(S) == {{}} \cup {{x} : x \in S}

\* a directory tree below src_dir
Trees(src_dir) ==
    UNION {
      LET tree == [files |-> {join(src_dir, f) : f \in fs},
                   empty |-> {join(src_dir, d) : d \in es}]
      IN  [files : {tree.files}, empty : {tree.empty},
           unreadable : AtMostOne(tree.files),
           locked : AtMostOne({src_dir} \cup TreeDirs(tree, src_dir))]
      : fs \in SUBSET ZipFiles, es \in SUBSET ZipEmptyDirs }

InitZip ==
    /\ InitJobs
    /\ \E tree \in Trees(OutRoot(1)) :
         fn = [op |-> "zip_dir", src_dir |-> OutRoot(1), tree |-> tree, packs |-> <<>>]

\* zipper.py:3-10  one call of zip_dir on the tree, which lists its directories
\* in some order
ZipDirCall ==
    /\ fn.op = "zip_dir"
    /\ Len(fn.packs) < MaxPacks
    /\ \E enum \in Enumerations(fn.tree, fn.src_dir,
                                {fn.src_dir} \cup TreeDirs(fn.tree, fn.src_dir)) :
         fn' = [fn EXCEPT !.packs = Append(@, zip_dir(fn.tree, enum, fn.src_dir))]
    /\ UNCHANGED FilesFrame

SpecZip == InitZip /\ [][ZipDirCall]_vars

----------------------------------------------------------------------------
\* Properties of packaging.

Packed == fn.op = "zip_dir" /\ fn.packs /= <<>>

\* the names, below the packed directory, of the files the tree holds
HeldFiles == {f \in ZipFiles : join(fn.src_dir, f) \in fn.tree.files}

\* the entries of an archive, as a set
EntrySet(pack) == {pack.entries[k] : k \in DOMAIN pack.entries}

\* every file of the tree can be opened and every directory listed
AllReadable == fn.tree.unreadable = {} /\ fn.tree.locked = {}

\* C24: the archive zip_dir makes of a directory whose files can all be read
\* has exactly one entry for each regular file below the directory, named by the
\* file's path relative to the directory, without the directory's own name in
\* front; an empty directory gets no entry; a directory holding a/b.txt and
\* c.txt gives exactly the entries 'a/b.txt' and 'c.txt'.
C24_EntriesAreRelativePaths ==
    (Packed /\ AllReadable) =>
        \A i \in DOMAIN fn.packs :
            /\ fn.packs[i].raised = None
            /\ EntrySet(fn.packs[i]) = HeldFiles
            /\ Len(fn.packs[i].entries) = Cardinality(HeldFiles)
            /\ HeldFiles = {"a/b.txt", "c.txt"} =>
                   EntrySet(fn.packs[i]) = {"a/b.txt", "c.txt"}

\* a directory holding a/b.txt and c.txt, and an empty directory, has been packed
C24_Witness ==
    /\ Packed /\ AllReadable
    /\ HeldFiles = {"a/b.txt", "c.txt"}
    /\ fn.tree.empty /= {}
    /\ Len(fn.packs[1].entries) = 2

\* C25: two packings of the same directory contents, all of them readable, give
\* the same entries in the same order, whatever the order in which the file system lists the
\* directories.
C25_PackingDeterministic ==
    (fn.op = "zip_dir" /\ AllReadable) =>
        \A i, k \in DOMAIN fn.packs : fn.packs[i] = fn.packs[k]

\* the file cannot be opened, or lies in or below a directory that cannot be listed
CannotBeRead(f) ==
    \/ f \in fn.tree.unreadable
    \/ \E d \in fn.tree.locked : d \in DirsAbove(f)

\* C26: when a regular file below the packed directory cannot be read, zip_dir
\* raises an error; it never returns with an archive that leaves the file out.
C26_UnreadableFileFails ==
    (Packed /\ \E f \in fn.tree.files : CannotBeRead(f)) =>
        \A i \in DOMAIN fn.packs : fn.packs[i].raised /= None

----------------------------------------------------------------------------
\* Properties of the generation stage's diagnostics and configuration checks.

\* C27: when a job whose generation stage was attempted has ended, succeeded or
\* failed, the raw-output file _crewai_raw.md is in its output tree.
C27_RawOutputKept ==
    \A j \in DOMAIN JOBS :
        ("gen" \in {ran[j][k] : k \in DOMAIN ran[j]} /\ JOBS[j].status \in Terminal)
            => w[j].raw

\* C28: a job submitted with a provider the generator does not support runs no
\* stage, not even the fetch stage, and never succeeds.
C28_ConfigErrorBeforeFetch ==
    \A j \in DOMAIN JOBS :
        ~IsOpenAI(w[j].llm_provider) =>
            /\ ran[j] = <<>>
            /\ JOBS[j].status /= "succeeded"

----------------------------------------------------------------------------
\* Termination.

\* C29: with fair workers, every submitted job eventually has status succeeded
\* or failed: whatever a stage or the archive check raises, no job stays
\* pending or running for ever.
C29_JobEventuallyEnds ==
    \A j \in JobIds :
        (j \in DOMAIN JOBS) ~> (j \in DOMAIN JOBS /\ JOBS[j].status \in Terminal)

\* a job whose archive check raised has ended failed
C29_Witness ==
    \E j \in DOMAIN JOBS :
        /\ w[j].exc = NoZipError
        /\ w[j].pc = "done"
        /\ JOBS[j].status = "failed"

----------------------------------------------------------------------------
\* Progress.

\* C30: no step lowers the stored progress of a job; a call of the callback
\* with a percentage below the stored one is such a step.
C30_ProgressNeverLowered ==
    [][ \A j \in DOMAIN JOBS : JOBS'[j].progress >= JOBS[j].progress ]_vars

----------------------------------------------------------------------------
\* The unit / BDD selection (main.py:44-53, 96-104, 130, 142-143 and
\* orchestrator.py:40-44).

UpperCase == "ABCDEFGHIJKLMNOPQRSTUVWXYZ"

LowerCase == "abcdefghijklmnopqrstuvwxyz"

RECURSIVE Lower(_)
\* str.lower()
Lower(s) ==
    IF s = "" THEN ""
    ELSE LET c  == Char(s, 1)
             at == {i \in 1..Len(UpperCase) : Char(UpperCase, i) = c}
         IN  (IF at = {} THEN c ELSE Char(LowerCase, CHOOSE i \in at : TRUE))
             \o Lower(SubSeq(s, 2, Len(s)))

\* main.py:44-53  to_bool(v) for a form value: None or a string
to_bool(v) ==
    IF v = None THEN FALSE
    ELSE Lower(Strip(v)) \in {"1", "true", "yes", "on", "y", "t"}

\* Mutant of Normalize: both flags are kept when both are requested.
NormalizeKeepsBoth(gen_unit, gen_bdd) ==
    IF ~gen_unit /\ ~gen_bdd THEN [generate_unit |-> TRUE, generate_bdd |-> gen_bdd]
    ELSE [generate_unit |-> gen_unit, generate_bdd |-> gen_bdd]

\* main.py:100-104  exactly one should be true; unit when ambiguous
Normalize(gen_unit, gen_bdd) ==
    IF gen_unit /\ gen_bdd THEN [generate_unit |-> gen_unit, generate_bdd |-> FALSE]
    ELSE IF ~gen_unit /\ ~gen_bdd THEN [generate_unit |-> TRUE, generate_bdd |-> gen_bdd]
    ELSE [generate_unit |-> gen_unit, generate_bdd |-> gen_bdd]

\* main.py:97-104  the flags build computes from the four form fields
BuildFlags(generate_unit, generate_bdd, generateUnitTests, createBDDFramework) ==
    Normalize(to_bool(generate_unit) \/ to_bool(generateUnitTests),
              to_bool(generate_bdd) \/ to_bool(createBDDFramework))

\* orchestrator.py:41-44  the mode run_pipeline runs with
PipelineMode(opts) ==
    LET do_unit == opts.generate_unit /\ ~opts.generate_bdd
        do_bdd  == opts.generate_bdd /\ ~opts.generate_unit
    IN  [do_unit |-> IF ~(do_unit \/ do_bdd) THEN TRUE ELSE do_unit, do_bdd |-> do_bdd]

\* the values a canonical form field may carry
FlagValues == {None, "", "true", " On ", "YES", "0", "false"}

\* the values a legacy form field may carry
LegacyValues == {None, "T", "no"}

InitFlags ==
    /\ InitJobs
    /\ \E gu, gb \in FlagValues, lu, lb \in LegacyValues :
         fn = [op |-> "flags", pc |-> "build",
               generate_unit |-> gu, generate_bdd |-> gb,
               generateUnitTests |-> lu, createBDDFramework |-> lb]

\* main.py:96-104, 130, 142-143  build normalizes the flags, records them in the
\* job and passes them on in the options
FlagsBuild ==
    /\ fn.op = "flags" /\ fn.pc = "build"
    /\ LET f == BuildFlags(fn.generate_unit, fn.generate_bdd,
                           fn.generateUnitTests, fn.createBDDFramework)
       IN  fn' = [op |-> "flags", pc |-> "pipeline",
                  generate_unit |-> fn.generate_unit, generate_bdd |-> fn.generate_bdd,
                  generateUnitTests |-> fn.generateUnitTests,
                  createBDDFramework |-> fn.createBDDFramework,
                  flags |-> f, opts |-> f]
    /\ UNCHANGED FilesFrame

\* orchestrator.py:40-44  run_pipeline selects its mode from the options
FlagsPipeline ==
    /\ fn.op = "flags" /\ fn.pc = "pipeline"
    /\ fn' = [op |-> "flags", pc |-> "done",
              generate_unit |-> fn.generate_unit, generate_bdd |-> fn.generate_bdd,
              generateUnitTests |-> fn.generateUnitTests,
              createBDDFramework |-> fn.createBDDFramework,
              flags |-> fn.flags, opts |-> fn.opts, mode |-> PipelineMode(fn.opts)]
    /\ UNCHANGED FilesFrame

SpecFlags == InitFlags /\ [][FlagsBuild \/ FlagsPipeline]_vars

\* the form asks for unit tests / for the BDD framework
UnitRequested == to_bool(fn.generate_unit) \/ to_bool(fn.generateUnitTests)

BddRequested == to_bool(fn.generate_bdd) \/ to_bool(fn.createBDDFramework)

\* C31: whatever the four form fields carry, exactly one mode is selected: unit
\* when both or neither are requested, otherwise the requested one; and the
\* flags recorded in the job at submission are the mode run_pipeline runs with.
C31_ExactlyOneMode ==
    /\ (fn.op = "flags" /\ fn.pc \in {"pipeline", "done"}) =>
           /\ fn.flags.generate_unit /= fn.flags.generate_bdd
           /\ fn.flags.generate_unit = (UnitRequested \/ ~BddRequested)
    /\ (fn.op = "flags" /\ fn.pc = "done") =>
           /\ fn.mode.do_unit /= fn.mode.do_bdd
           /\ fn.mode.do_unit = fn.flags.generate_unit
           /\ fn.mode.do_bdd = fn.flags.generate_bdd

\* both modes were requested, one by its legacy field, and run_pipeline ran unit
C31_Witness ==
    /\ fn.op = "flags" /\ fn.pc = "done"
    /\ fn.generate_bdd = " On " /\ fn.generateUnitTests = "T" /\ fn.generate_unit = None
    /\ fn.mode.do_unit /\ ~fn.mode.do_bdd

----------------------------------------------------------------------------
\* Properties of the event streams.

\* C32: every stream has its own position in the job's log.  A step of one
\* stream changes neither the job nor the other stream; every stream starts at
\* the first entry, wherever the other one is; and a stream attached after the
\* job has ended has delivered, when it ends, the whole log from its beginning,
\* in order.
C32_SubscribersIndependent ==
    /\ [](\A s \in SubIds :
            (subs[s].pc /= "none" /\ subs[s].seen /= <<>>) => subs[s].seen[1] = 1)
    /\ [](subs[2].pc = "done" =>
            subs[2].seen = [k \in 1..Len(JOBS[subs[2].job].logs) |-> k])
    /\ [][\A s \in SubIds :
            subs'[s] /= subs[s] =>
                /\ JOBS' = JOBS
                /\ \A t \in SubIds \ {s} : subs'[t] = subs[t]]_vars

\* the first stream has delivered entries and moved its position on; the late
\* stream has ended after delivering the log from entry 1
C32_Witness ==
    /\ subs[1].pc = "done" /\ subs[1].last_len > 1
    /\ subs[2].pc = "done"
    /\ Len(subs[2].seen) > 1 /\ subs[2].seen[1] = 1

\* C33: a stream ends exactly when it has seen the job's status succeeded or
\* failed: no stream has ended while its job is pending or running, and with
\* fair scheduling every stream eventually ends.
C33_StreamEndsWhenTerminal ==
    /\ [](\A s \in SubIds :
            subs[s].pc = "done" => JOBS[subs[s].job].status \in Terminal)
    /\ \A s \in SubIds : (subs[s].pc /= "none") ~> (subs[s].pc = "done")

\* a stream opened before the job ran has ended on the succeeded job
C33_Witness ==
    /\ subs[1].pc = "done"
    /\ subs[1].seen /= <<>>
    /\ JOBS[1].status = "succeeded"
    /\ subs[2].pc = "none"

----------------------------------------------------------------------------
\* Properties of the materializer's normalization.

\* C34: a block declared as '/unit-tests/Foo.java' or 'unit-tests\Foo.java' is
\* accepted: _materialize writes it to unit-tests/Foo.java under the output
\* directory and counts it.
C34_DeclaredPathNormalized ==
    (Materialized /\ Len(fn.text) = 1
        /\ fn.text[1].path \in {"/unit-tests/Foo.java", "unit-tests\\Foo.java"}) =>
            /\ fn.out.raised = None
            /\ fn.out.count = 1
            /\ DOMAIN fn.out.files = {fn.out_root \o "/unit-tests/Foo.java"}

----------------------------------------------------------------------------
\* Calls of _clean_body on its own, on bounded bodies.

\* Bound of the model: the number of characters of a body.
MaxBody == 3

\* Bound of the model: how often the normalization is applied in a row.
MaxCleans == 2

\* the characters of a body: a letter, a blank, a tab and the line endings
BodyChars == {"a", " ", "\t", "\r", "\n"}

RECURSIVE Concat(_)
\* the string of a sequence of characters
Concat(cs) == IF cs = <<>> THEN "" ELSE Head(cs) \o Concat(Tail(cs))

\* the bodies of at most MaxBody characters, and the missing body
Bodies == {None} \cup {Concat(cs) : cs \in UNION {[1..n -> BodyChars] : n \in 0..MaxBody}}

InitBody ==
    /\ InitJobs
    /\ \E text \in Bodies : fn = [op |-> "_clean_body", text |-> text, outs |-> <<>>]

\* crewai_pipeline.py:31-36  one call of _clean_body, on the body or on the
\* result of the call before
CleanBodyCall ==
    /\ fn.op = "_clean_body"
    /\ Len(fn.outs) < MaxCleans
    /\ fn' = [fn EXCEPT !.outs = Append(@, _clean_body(IF fn.outs = <<>> THEN fn.text
                                                       ELSE fn.outs[Len(fn.outs)]))]
    /\ UNCHANGED FilesFrame

SpecBody == InitBody /\ [][CleanBodyCall]_vars

\* the characters of a string that are not line endings, in order
RECURSIVE Content(_)
Content(s) ==
    IF s = "" THEN ""
    ELSE (IF Char(s, 1) \in {"\r", "\n"} THEN "" ELSE Char(s, 1))
         \o Content(SubSeq(s, 2, Len(s)))

\* the string consists of blanks only
Blank(s) == \A i \in 1..Len(s) : Char(s, i) \in WhiteSpace

Cleaned == fn.op = "_clean_body" /\ fn.outs /= <<>>

\* C35: for every body, a string, _clean_body returns a text without carriage
\* return that ends in exactly one newline; its characters other than line
\* endings are those of the body, in order, up to the body's trailing blanks; a
\* body without carriage return and without trailing blank comes back unchanged
\* but for the final newline; and normalizing the result again returns it
\* unchanged.  (For a missing body, None, it returns the empty string.)
C35_CleanBodyNormalizes ==
    Cleaned =>
        LET out == fn.outs[1]
        IN  IF fn.text = None THEN out = ""
            ELSE /\ \A i \in 1..Len(out) : Char(out, i) /= "\r"
                 /\ Len(out) >= 1 /\ Char(out, Len(out)) = "\n"
                 /\ Len(out) >= 2 => Char(out, Len(out) - 1) /= "\n"
                 /\ StartsWith(Content(fn.text), Content(out))
                 /\ Blank(SubSeq(Content(fn.text), Len(Content(out)) + 1,
                                 Len(Content(fn.text))))
                 /\ (Content(fn.text) = fn.text /\ RStrip(fn.text, WhiteSpace) = fn.text)
                        => out = fn.text \o "\n"
                 /\ \A k \in DOMAIN fn.outs : fn.outs[k] = out

\* a body with a leading blank and a lone carriage return inside was normalized
\* twice
C35_Witness ==
    /\ Cleaned /\ Len(fn.outs) = 2
    /\ fn.text = " \ra"
    /\ fn.outs[2] = " \na\n"

----------------------------------------------------------------------------
\* Properties of what the readers are shown.

\* C36: a get_job response never shows a half-applied update: when its log is
\* not empty, its progress is the progress recorded in its last log entry.
C36_PollSeesWholeUpdates ==
    LET r == polls[2]
    IN  (r.job /= 0 /\ r.logs /= <<>>) =>
            r.progress = r.logs[Len(r.logs)].progress

----------------------------------------------------------------------------
\* GET /api/jobs/{job_id}/artifact (main.py:246-259).  The handler has no
\* suspension point; the response is kept with the status the job had when it
\* was made (history).

\* main.py:248-259  404 for an unknown job, 404 when no artifact is recorded or
\* the file is not there, else the file
download_artifact(j) ==
    /\ loop = Idle
    /\ fn.op \in {"none", "download_artifact"}
    /\ \E is_file \in BOOLEAN :
         fn' = IF j \notin DOMAIN JOBS
               THEN [op |-> "download_artifact", job |-> j, code |-> 404,
                     detail |-> "Job not found", status |-> None]
               ELSE IF JOBS[j].artifact = None \/ ~is_file
               THEN [op |-> "download_artifact", job |-> j, code |-> 404,
                     detail |-> "Artifact not found", status |-> JOBS[j].status]
               ELSE [op |-> "download_artifact", job |-> j, code |-> 200,
                     detail |-> JOBS[j].artifact, status |-> JOBS[j].status]
    /\ UNCHANGED FilesFrame

\* One job and its worker, polled and asked for its artifact.
SpecExpose == Init /\ [][NextOne \/ get_job \/ download_artifact(1)]_vars

\* C37: whoever is shown an artifact is shown a succeeded job: a get_job
\* response with an artifactUrl has status succeeded, and a download answered
\* with the file is of a job whose status is succeeded.
C37_ArtifactOnlyWhenSucceeded ==
    /\ (polls[2].job /= 0 /\ polls[2].artifactUrl /= None) =>
           polls[2].status = "succeeded"
    /\ (fn.op = "download_artifact" /\ fn.code = 200) => fn.status = "succeeded"

\* C38: a streamed event has the message of its log entry, and the progress,
\* status and artifactUrl the job has when the event is emitted, not those of
\* the time the entry was written: its progress is never below the entry's, and
\* every event of a stream opened after the job has ended, the one for the first
\* entry too, carries the job's final progress, status and artifactUrl.
C38_EventCarriesCurrentState ==
    \A s \in SubIds :
        (subs[s].pc /= "none" /\ subs[s].last.pos /= 0) =>
            LET ev  == subs[s].last
                job == JOBS[subs[s].job]
                e   == job.logs[ev.pos]
            IN  /\ ev.message = StrOr(e.message, e.status)
                /\ ev.progress >= e.progress
                /\ s = 2 => /\ ev.progress = job.progress
                            /\ ev.status = job.status
                            /\ ev.artifactUrl = ArtifactUrl(subs[s].job, job.artifact)

\* the event for the first entry, written at progress 5, carries progress 100,
\* status succeeded and the artifactUrl
C38_Witness ==
    /\ subs[2].pc /= "none"
    /\ subs[2].last.pos = 1
    /\ JOBS[1].logs[1].progress = 5
    /\ subs[2].last.progress = 100
    /\ subs[2].last.status = "succeeded"
    /\ subs[2].last.artifactUrl /= None

====
